---------------------------- MODULE Spec2Model ----------------------------
(***************************************************************************)
(* RFM customer segmentation engine (app/segmentation_engine.py).          *)
(*                                                                         *)
(* One SegmentationEngine instance holds reference_date.  calculate_tier   *)
(* is modelled statement by statement, one activation per caller:          *)
(*   line 90  recency_score   <- _recency_score((ref - last).days)         *)
(*   line 91  frequency_score <- _frequency_score(total_orders_12m)        *)
(*   line 92  monetary_score  <- _monetary_score(total_spend_12m)          *)
(*   line 93  score           <- int(recency + frequency + monetary)       *)
(*   line 95  _map_score_to_tier(score), then _apply_constraints:          *)
(*   line 29  the reference date check (raise ValueError)                  *)
(*   line 32  the new-account rule, and the return                         *)
(*                                                                         *)
(* Numbers.  datetimes are integer ticks, TicksPerDay ticks to a day, so   *)
(* that timedelta.days is a floor and not the identity.  total_spend_12m   *)
(* is an amount in cents.  The three sub-scores are Python floats; they    *)
(* are kept here as exact rationals with the common denominator Scale      *)
(* (a value v stands for v / Scale).  A sum of sub-scores is an integer    *)
(* only when the recency and the monetary score both are (73 and 10000     *)
(* are coprime), and is otherwise at least 1/730000 away from one, so the  *)
(* truncation of the float sum equals the truncation of the exact sum.     *)
(***************************************************************************)
EXTENDS Integers, FiniteSets, Sequences, TLC

VARIABLES
    reference_date,   \* SegmentationEngine.reference_date
    clock,            \* the wall clock, datetime.now()
    pc,               \* per caller: the statement of calculate_tier it is at
    customer,         \* per caller: the CustomerActivity argument
    recency_score,    \* per caller: local of calculate_tier (scaled)
    frequency_score,  \* per caller: local of calculate_tier (scaled)
    monetary_score,   \* per caller: local of calculate_tier (scaled)
    score,            \* per caller: local of calculate_tier (integer)
    current_tier,     \* per caller: argument of _apply_constraints
    result,           \* per caller: what the call gave: a tier or "ValueError"
    executed          \* per caller: statements the current call has executed

vars == << reference_date, clock, pc, customer, recency_score, frequency_score,
           monetary_score, score, current_tier, result, executed >>

-----------------------------------------------------------------------------
(* Bounds of the model *)

TicksPerDay == 2
MaxClock == 2
NumCallers == 2

Callers == 1 .. NumCallers

-----------------------------------------------------------------------------
(* CustomerTier *)

BRONZE == "bronze"
SILVER == "silver"
GOLD == "gold"
PLATINUM == "platinum"
CustomerTier == { BRONZE, SILVER, GOLD, PLATINUM }

ValueError == "ValueError"
NoTier == "none"

-----------------------------------------------------------------------------
(* Inputs *)

\* "now" when the engine is constructed
T0 == 1000 * TicksPerDay

\* the reference_date argument of __init__; None stands for the default
None == -1
GivenDates == { None, T0 - TicksPerDay }

DaysAgo == { 0, 1, 136, 137, 270, 280, 365, 400 }
LastPurchaseDates ==
    { T0 - d * TicksPerDay : d \in DaysAgo } \cup { T0 - 1, T0 + 1 }
Orders == { -5, 0, 1, 7, 10, 100, 150 }
SpendCents == { -5000, 0, 50000, 66666, 100000, 500000 }
AccountAges == { -1, 0, 29, 30, 200 }

CustomerActivity(lp, o, s, a) ==
    [ last_purchase_date |-> lp, total_orders_12m |-> o,
      total_spend_12m |-> s, account_age_days |-> a ]

Customers ==
    { CustomerActivity(lp, o, s, a) :
        lp \in LastPurchaseDates, o \in Orders, s \in SpendCents, a \in AccountAges }

\* the records the concurrent callers pass
SharedCustomers ==
    { CustomerActivity(T0 + 1, 10, 100000, 200),
      CustomerActivity(T0 - 136 * TicksPerDay, 10, 100000, 200),
      CustomerActivity(T0 - 137 * TicksPerDay, 10, 100000, 0),
      CustomerActivity(T0 - 400 * TicksPerDay, -5, -5000, 29) }

NoCustomer == CustomerActivity(0, 0, 0, 0)

-----------------------------------------------------------------------------
(* Arithmetic *)

Max(a, b) == IF a >= b THEN a ELSE b
Min(a, b) == IF a <= b THEN a ELSE b

\* denominator of the scaled sub-scores: 365 (recency) times 10000 (0.03 per
\* dollar is 3 / 10000 per cent)
Scale == 365 * 10000

\* timedelta.days: whole days, rounded towards minus infinity
Days(delta) ==
    IF delta >= 0 THEN delta \div TicksPerDay
    ELSE -((-delta + TicksPerDay - 1) \div TicksPerDay)

\* a rounding to the nearest integer in place of the truncation
IntOfRounded(n) == (n + Scale \div 2) \div Scale

\* int(x) of a float: truncation towards zero
IntOf(n) == IF n >= 0 THEN n \div Scale ELSE -((-n) \div Scale)

-----------------------------------------------------------------------------
(* The static methods *)

\* the recency score without its floor at 0
RecencyScoreUnfloored(days_since_purchase) ==
    40 * Scale - days_since_purchase * 40 * 10000

RecencyScore(days_since_purchase) ==
    Max(0, 40 * Scale - days_since_purchase * 40 * 10000)

points_per_order == 3

\* the frequency score capped at 100 orders only
FrequencyScoreUncapped(total_orders_12m) ==
    Min(100, total_orders_12m) * points_per_order * Scale

FrequencyScore(total_orders_12m) ==
    Min(30, Min(100, total_orders_12m) * points_per_order) * Scale

\* the monetary score without its floor at 0
MonetaryScoreUnfloored(total_spend_12m) ==
    Min(30 * Scale, total_spend_12m * 3 * 365)

MonetaryScore(total_spend_12m) ==
    Max(0, Min(30 * Scale, total_spend_12m * 3 * 365))

MapScoreToTier(s) ==
    IF s >= 85 THEN PLATINUM
    ELSE IF s >= 70 THEN GOLD
    ELSE IF s >= 50 THEN SILVER
    ELSE BRONZE

\* the date check with the equal dates rejected too
RaisesOnEqualDates(ref, c) == ref <= c.last_purchase_date

\* the date check with the comparison reversed
RaisesWhenAfter(ref, c) == ref > c.last_purchase_date

\* _apply_constraints, line 29
RaisesValueError(ref, c) == ref < c.last_purchase_date

\* the new-account rule with 30 days included
NewAccountRuleInclusive(c, tier) ==
    IF c.account_age_days <= 30 /\ tier # BRONZE THEN SILVER ELSE tier

\* _apply_constraints, lines 32-35
NewAccountRule(c, tier) ==
    IF c.account_age_days < 30 /\ tier # BRONZE THEN SILVER ELSE tier

\* calculate_tier run from its first statement to its last, on its own
TotalScore(ref, c) ==
    IntOf(RecencyScore(Days(ref - c.last_purchase_date))
          + FrequencyScore(c.total_orders_12m)
          + MonetaryScore(c.total_spend_12m))

CalculateTier(ref, c) ==
    IF RaisesValueError(ref, c) THEN ValueError
    ELSE NewAccountRule(c, MapScoreToTier(TotalScore(ref, c)))

\* __init__: reference_date or datetime.now()
Construct(given, now) == IF given = None THEN now ELSE given

-----------------------------------------------------------------------------
(* State *)

Init ==
    /\ clock = T0
    /\ \E given \in GivenDates : reference_date = Construct(given, clock)
    /\ pc = [t \in Callers |-> "idle"]
    /\ customer = [t \in Callers |-> NoCustomer]
    /\ recency_score = [t \in Callers |-> 0]
    /\ frequency_score = [t \in Callers |-> 0]
    /\ monetary_score = [t \in Callers |-> 0]
    /\ score = [t \in Callers |-> 0]
    /\ current_tier = [t \in Callers |-> NoTier]
    /\ result = [t \in Callers |-> NoTier]
    /\ executed = [t \in Callers |-> {}]

\* the wall clock advances
Tick ==
    /\ clock < T0 + MaxClock
    /\ clock' = clock + 1
    /\ UNCHANGED << reference_date, pc, customer, recency_score, frequency_score,
                    monetary_score, score, current_tier, result, executed >>

\* a caller enters calculate_tier with a record of the set given
Call(t, records) ==
    /\ pc[t] = "idle"
    /\ pc' = [pc EXCEPT ![t] = "line90"]
    /\ \E c \in records : customer' = [customer EXCEPT ![t] = c]
    /\ UNCHANGED << reference_date, clock, recency_score, frequency_score,
                    monetary_score, score, current_tier, result, executed >>

\* line 90 with a fresh datetime.now() in place of the stored reference date
Line90FreshNow(t) ==
    /\ pc[t] = "line90"
    /\ recency_score' = [recency_score EXCEPT ![t] =
           RecencyScore(Days(clock - customer[t].last_purchase_date))]
    /\ executed' = [executed EXCEPT ![t] = @ \cup {"recency"}]
    /\ pc' = [pc EXCEPT ![t] = "line91"]
    /\ UNCHANGED << reference_date, clock, customer, frequency_score,
                    monetary_score, score, current_tier, result >>

Line90(t) ==
    /\ pc[t] = "line90"
    /\ recency_score' = [recency_score EXCEPT ![t] =
           RecencyScore(Days(reference_date - customer[t].last_purchase_date))]
    /\ executed' = [executed EXCEPT ![t] = @ \cup {"recency"}]
    /\ pc' = [pc EXCEPT ![t] = "line91"]
    /\ UNCHANGED << reference_date, clock, customer, frequency_score,
                    monetary_score, score, current_tier, result >>

Line91(t) ==
    /\ pc[t] = "line91"
    /\ frequency_score' = [frequency_score EXCEPT ![t] =
           FrequencyScore(customer[t].total_orders_12m)]
    /\ executed' = [executed EXCEPT ![t] = @ \cup {"frequency"}]
    /\ pc' = [pc EXCEPT ![t] = "line92"]
    /\ UNCHANGED << reference_date, clock, customer, recency_score,
                    monetary_score, score, current_tier, result >>

Line92(t) ==
    /\ pc[t] = "line92"
    /\ monetary_score' = [monetary_score EXCEPT ![t] =
           MonetaryScore(customer[t].total_spend_12m)]
    /\ executed' = [executed EXCEPT ![t] = @ \cup {"monetary"}]
    /\ pc' = [pc EXCEPT ![t] = "line93"]
    /\ UNCHANGED << reference_date, clock, customer, recency_score,
                    frequency_score, score, current_tier, result >>

\* line 93 with the score kept on the engine, one slot for all callers
Line93OnEngine(t) ==
    /\ pc[t] = "line93"
    /\ score' = [u \in Callers |->
           IntOf(recency_score[t] + frequency_score[t] + monetary_score[t])]
    /\ executed' = [executed EXCEPT ![t] = @ \cup {"score"}]
    /\ pc' = [pc EXCEPT ![t] = "line95"]
    /\ UNCHANGED << reference_date, clock, customer, recency_score,
                    frequency_score, monetary_score, current_tier, result >>

Line93(t) ==
    /\ pc[t] = "line93"
    /\ score' = [score EXCEPT ![t] =
           IntOf(recency_score[t] + frequency_score[t] + monetary_score[t])]
    /\ executed' = [executed EXCEPT ![t] = @ \cup {"score"}]
    /\ pc' = [pc EXCEPT ![t] = "line95"]
    /\ UNCHANGED << reference_date, clock, customer, recency_score,
                    frequency_score, monetary_score, current_tier, result >>

\* the argument self._map_score_to_tier(score) of the call in line 95
Line95(t) ==
    /\ pc[t] = "line95"
    /\ current_tier' = [current_tier EXCEPT ![t] = MapScoreToTier(score[t])]
    /\ executed' = [executed EXCEPT ![t] = @ \cup {"map"}]
    /\ pc' = [pc EXCEPT ![t] = "line29"]
    /\ UNCHANGED << reference_date, clock, customer, recency_score,
                    frequency_score, monetary_score, score, result >>

\* _apply_constraints: the reference date check
Line29(t) ==
    /\ pc[t] = "line29"
    /\ executed' = [executed EXCEPT ![t] = @ \cup {"validate"}]
    /\ IF RaisesValueError(reference_date, customer[t])
       THEN /\ result' = [result EXCEPT ![t] = ValueError]
            /\ pc' = [pc EXCEPT ![t] = "done"]
       ELSE /\ result' = result
            /\ pc' = [pc EXCEPT ![t] = "line32"]
    /\ UNCHANGED << reference_date, clock, customer, recency_score,
                    frequency_score, monetary_score, score, current_tier >>

\* _apply_constraints: the new-account rule and the return
Line32(t) ==
    /\ pc[t] = "line32"
    /\ result' = [result EXCEPT ![t] = NewAccountRule(customer[t], current_tier[t])]
    /\ executed' = [executed EXCEPT ![t] = @ \cup {"cap"}]
    /\ pc' = [pc EXCEPT ![t] = "done"]
    /\ UNCHANGED << reference_date, clock, customer, recency_score,
                    frequency_score, monetary_score, score, current_tier >>

\* the caller drops the outcome; the frame of the call is gone
Return(t) ==
    /\ pc[t] = "done"
    /\ pc' = [pc EXCEPT ![t] = "idle"]
    /\ customer' = [customer EXCEPT ![t] = NoCustomer]
    /\ recency_score' = [recency_score EXCEPT ![t] = 0]
    /\ frequency_score' = [frequency_score EXCEPT ![t] = 0]
    /\ monetary_score' = [monetary_score EXCEPT ![t] = 0]
    /\ score' = [score EXCEPT ![t] = 0]
    /\ current_tier' = [current_tier EXCEPT ![t] = NoTier]
    /\ result' = [result EXCEPT ![t] = NoTier]
    /\ executed' = [executed EXCEPT ![t] = {}]
    /\ UNCHANGED << reference_date, clock >>

Step(t) ==
    \/ Line90(t)
    \/ Line91(t)
    \/ Line92(t)
    \/ Line93(t)
    \/ Line95(t)
    \/ Line29(t)
    \/ Line32(t)
    \/ Return(t)

\* one caller, every customer record
Next ==
    \/ Tick
    \/ Call(1, Customers)
    \/ Step(1)

Spec == Init /\ [][Next]_vars

\* several callers on the one engine, their statements interleaved
NextShared ==
    \/ Tick
    \/ \E t \in Callers : Call(t, SharedCustomers)
    \/ \E t \in Callers : Step(t)

SpecShared == Init /\ [][NextShared]_vars

-----------------------------------------------------------------------------
(* Properties *)

\* days_since of the call caller t is in
DaysSince(t) == Days(reference_date - customer[t].last_purchase_date)

\* the call of caller t has ended
Done(t) == pc[t] = "done"

\* the call of caller t has ended and its input was accepted
Accepted(t) == Done(t) /\ ~(reference_date < customer[t].last_purchase_date)

\* the exact sum of the three sub-scores of caller t, over Scale
SubScoreSum(t) == recency_score[t] + frequency_score[t] + monetary_score[t]

\* C1: a call on an engine whose reference_date is earlier than the record's
\* last_purchase_date ends with ValueError and gives no tier, whatever the
\* other three fields are; with reference_date >= last_purchase_date, the
\* equal dates included, it raises nothing and gives a tier.
C1_DateCheck ==
    \A t \in Callers :
        Done(t) =>
            /\ reference_date < customer[t].last_purchase_date
                   => result[t] = ValueError /\ result[t] \notin CustomerTier
            /\ reference_date >= customer[t].last_purchase_date
                   => result[t] \in CustomerTier

\* a call whose last purchase is half a day after the reference date has
\* ended with the error, for a record that would otherwise be Platinum
C1_Witness ==
    /\ Done(1)
    /\ customer[1].last_purchase_date = reference_date + 1
    /\ customer[1].total_orders_12m = 10
    /\ customer[1].total_spend_12m = 100000
    /\ customer[1].account_age_days = 200
    /\ result[1] = ValueError

\* C2: for an accepted input, account_age_days < 30 and a mapped tier of
\* Silver, Gold or Platinum give exactly Silver; a mapped tier of Bronze
\* gives Bronze; account_age_days >= 30 gives the mapped tier unmodified.
C2_NewAccountCap ==
    \A t \in Callers :
        Accepted(t) =>
            /\ current_tier[t] \in CustomerTier
            /\ ( customer[t].account_age_days < 30
                 /\ current_tier[t] \in { SILVER, GOLD, PLATINUM } )
                   => result[t] = SILVER
            /\ current_tier[t] = BRONZE => result[t] = BRONZE
            /\ customer[t].account_age_days >= 30 => result[t] = current_tier[t]

\* a 29 day old account whose score maps to Platinum has been given Silver
C2_Witness ==
    /\ Accepted(1)
    /\ customer[1].account_age_days = 29
    /\ current_tier[1] = PLATINUM
    /\ result[1] = SILVER

\* C3: for an accepted input with account_age_days >= 30 the tier is decided
\* by the floor of the exact sum of the sub-scores: Platinum iff the floor is
\* at least 85, that is iff the sum is; Gold iff 70 <= floor < 85; Silver iff
\* 50 <= floor < 70; Bronze iff floor < 50.
C3_FloorThenThreshold ==
    \A t \in Callers :
        ( Accepted(t) /\ customer[t].account_age_days >= 30 ) =>
            LET sum == SubScoreSum(t) IN
            /\ result[t] = PLATINUM <=> sum >= 85 * Scale
            /\ result[t] = GOLD <=> ( sum >= 70 * Scale /\ sum < 85 * Scale )
            /\ result[t] = SILVER <=> ( sum >= 50 * Scale /\ sum < 70 * Scale )
            /\ result[t] = BRONZE <=> sum < 50 * Scale

\* 137 days, 10 orders, 1000 spent: the sum is above 84.9 and below 85, and
\* the tier is Gold
C3_Witness ==
    /\ Accepted(1)
    /\ DaysSince(1) = 137
    /\ customer[1].total_orders_12m = 10
    /\ customer[1].total_spend_12m = 100000
    /\ customer[1].account_age_days = 200
    /\ 10 * (SubScoreSum(1) - 84 * Scale) > 9 * Scale
    /\ SubScoreSum(1) < 85 * Scale
    /\ result[1] = GOLD

\* C4: of two accepted inputs with the same orders and spend, the one with
\* the smaller days_since has a total score at least as large; the recency
\* score is 40 at days_since = 0 and 0 at every days_since >= 365.
C4_RecencyMonotone ==
    \A t \in Callers :
        Accepted(t) =>
            /\ \A lp \in LastPurchaseDates :
                   LET other == [customer[t] EXCEPT !.last_purchase_date = lp] IN
                   ( ~(reference_date < lp)
                     /\ Days(reference_date - lp) <= DaysSince(t) )
                       => TotalScore(reference_date, other) >= score[t]
            /\ DaysSince(t) = 0 => recency_score[t] = 40 * Scale
            /\ DaysSince(t) >= 365 => recency_score[t] = 0

\* a call with days_since = 400 has ended with recency score 0, and the same
\* record bought 136 days ago scores strictly more
C4_Witness ==
    /\ Accepted(1)
    /\ DaysSince(1) = 400
    /\ recency_score[1] = 0
    /\ \E lp \in LastPurchaseDates :
           /\ Days(reference_date - lp) = 136
           /\ TotalScore(reference_date,
                         [customer[1] EXCEPT !.last_purchase_date = lp]) > score[1]

\* C5: for every total_orders_12m >= 10, values above 100 included, the
\* frequency score is exactly 30, and the call gives the total score and the
\* outcome that the same record with total_orders_12m = 10 gives.
C5_FrequencySaturation ==
    \A t \in Callers :
        ( Done(t) /\ customer[t].total_orders_12m >= 10 ) =>
            LET ten == [customer[t] EXCEPT !.total_orders_12m = 10] IN
            /\ frequency_score[t] = 30 * Scale
            /\ score[t] = TotalScore(reference_date, ten)
            /\ result[t] = CalculateTier(reference_date, ten)

\* a call with 150 orders has ended with frequency score 30 and a tier
C5_Witness ==
    /\ Accepted(1)
    /\ customer[1].total_orders_12m = 150
    /\ frequency_score[1] = 30 * Scale
    /\ result[1] \in CustomerTier

\* C6: for every total_spend_12m the monetary score lies in [0, 30]; it is 0
\* for a spend <= 0 and 30 for a spend >= 1000 (100000 cents); a negative
\* spend does not bring the total score below that of the same record with
\* spend 0.
C6_MonetaryBounds ==
    \A t \in Callers :
        Done(t) =>
            /\ monetary_score[t] >= 0
            /\ monetary_score[t] <= 30 * Scale
            /\ customer[t].total_spend_12m <= 0 => monetary_score[t] = 0
            /\ customer[t].total_spend_12m >= 100000
                   => monetary_score[t] = 30 * Scale
            /\ customer[t].total_spend_12m < 0
                   => score[t] >= TotalScore(reference_date,
                          [customer[t] EXCEPT !.total_spend_12m = 0])

\* a call with a spend of -50 has ended with monetary score 0
C6_Witness ==
    /\ Accepted(1)
    /\ customer[1].total_spend_12m = -5000
    /\ monetary_score[1] = 0
    /\ score[1] = 40

\* any two ended calls with the same record have the same outcome
SameRecordSameOutcome ==
    \A t1, t2 \in Callers :
        ( Done(t1) /\ Done(t2) /\ customer[t1] = customer[t2] )
            => result[t1] = result[t2]

\* C7: no step changes reference_date after construction, and whatever the
\* wall clock does between calls, two calls with the same record end with
\* the same outcome, the same tier or both the error.
C7_FixedReferenceDate ==
    [][ reference_date' = reference_date /\ SameRecordSameOutcome' ]_vars

\* two calls with the same record have ended with the same tier while the
\* wall clock has moved a day past the reference date
C7_Witness ==
    /\ Done(1) /\ Done(2)
    /\ customer[1] = customer[2]
    /\ result[1] \in CustomerTier
    /\ result[1] = result[2]
    /\ clock = T0 + MaxClock

\* every local a call has computed, and its outcome, is what the call gives
\* when it runs on its own
AsWhenAlone ==
    \A t \in Callers :
        LET c == customer[t] IN
        /\ "recency" \in executed[t] => recency_score[t] =
               RecencyScore(Days(reference_date - c.last_purchase_date))
        /\ "frequency" \in executed[t] => frequency_score[t] =
               FrequencyScore(c.total_orders_12m)
        /\ "monetary" \in executed[t] => monetary_score[t] =
               MonetaryScore(c.total_spend_12m)
        /\ "score" \in executed[t] => score[t] = TotalScore(reference_date, c)
        /\ "map" \in executed[t] => current_tier[t] =
               MapScoreToTier(TotalScore(reference_date, c))
        /\ Done(t) => result[t] = CalculateTier(reference_date, c)

\* C8: with the statements of several calls interleaved, no step writes
\* reference_date or the record of a call in progress, and every call
\* computes and gives what it gives alone.
C8_CallsIndependent ==
    [][ /\ reference_date' = reference_date
        /\ \A t \in Callers :
               pc[t] \notin { "idle", "done" } => customer'[t] = customer[t]
        /\ AsWhenAlone' ]_vars

\* two calls with different records are in progress at once, one about to
\* check the dates, the other about to map its score
C8_Witness ==
    /\ pc[1] = "line29"
    /\ pc[2] = "line95"
    /\ customer[1] # customer[2]
    /\ score[1] # score[2]

\* C9: for every total_orders_12m, the negative ones included, the frequency
\* score lies in 0..30, and the total integer score of an accepted input
\* lies in 0..100.
C9_FrequencyRange ==
    \A t \in Callers :
        /\ "frequency" \in executed[t]
               => ( frequency_score[t] >= 0 /\ frequency_score[t] <= 30 * Scale )
        /\ Accepted(t) => score[t] \in 0 .. 100

\* C10 as stated: the date check is the first statement of the call, so a
\* call that ends with the error has computed no sub-score, no score and no
\* mapped tier, and has not evaluated the new-account rule.
C10_ValidationFirst ==
    \A t \in Callers :
        ( Done(t) /\ result[t] = ValueError ) =>
            executed[t] \cap { "recency", "frequency", "monetary", "score",
                               "map", "cap" } = {}

\* C10 as the code has it: the date check comes after the three sub-scores,
\* the score and the mapped tier are computed, and before the new-account
\* rule; a call it rejects ends with the error, has computed all five and
\* has not evaluated the new-account rule; the rule is evaluated only for a
\* record the check has accepted.
C10_ValidationBeforeCapOnly ==
    \A t \in Callers :
        /\ "validate" \in executed[t] =>
               { "recency", "frequency", "monetary", "score", "map" }
                   \subseteq executed[t]
        /\ ( Done(t) /\ reference_date < customer[t].last_purchase_date ) =>
               /\ result[t] = ValueError
               /\ executed[t] = { "recency", "frequency", "monetary", "score",
                                  "map", "validate" }
        /\ "cap" \in executed[t] =>
               /\ "validate" \in executed[t]
               /\ ~(reference_date < customer[t].last_purchase_date)

\* a rejected call has ended with the error after computing a recency score
\* above 40 from a negative days_since
C10_Witness ==
    /\ Done(1)
    /\ result[1] = ValueError
    /\ DaysSince(1) < 0
    /\ recency_score[1] > 40 * Scale
    /\ current_tier[1] \in CustomerTier
    /\ "cap" \notin executed[1]

=============================================================================
